---- MODULE Spec2Model ----
(***************************************************************************)
(* The Luminate property-site generator: the commit publisher              *)
(* (GitHubPublisher in github.js), the site deleter and the form server's  *)
(* POST /api/generate handler, against a model of the hosted repository    *)
(* (blobs, trees, commits and one branch pointer).                         *)
(*                                                                         *)
(* A hosting call is one atomic step at the hosting service.  It either    *)
(* takes effect and returns, or fails without effect: the service is       *)
(* unavailable (any call), or it rejects the call (a pointer update that   *)
(* is not a fast-forward, a remove call whose sha is stale, a path that    *)
(* is not a file).                                                         *)
(***************************************************************************)
EXTENDS Integers, Sequences, FiniteSets, TLC

\* ------------------------------------------------------------- bounds
MaxImages == 2

Slugs == {"1-main-st-springfield", "2-elm-st-springfield"}
Publishers == {"p1", "p2"}
Procs == {"p1", "p2", "g"}

\* File contents; a blob's sha is its content (content-addressed).  EmptyContent
\* is the empty string, Absent marks a path a tree does not hold.
Contents == {1, 2}
EmptyContent == 0
Absent == 0

\* ------------------------------------------------------------- paths
\* properties/<slug>/index.html
IndexPath(slug) == [slug |-> slug, kind |-> "index", n |-> 0]
\* properties/<slug>/images/photo-<n>
ImagePath(slug, n) == [slug |-> slug, kind |-> "image", n |-> n]
\* properties/<slug>/about.html: a file directly under the site's directory
\* other than index.html (written through uploadFile)
ExtraPath(slug) == [slug |-> slug, kind |-> "about", n |-> 0]
\* a file outside properties/
ReadmePath == [slug |-> "", kind |-> "root", n |-> 0]
\* properties/.gitkeep: a file directly under properties/
KeepPath == [slug |-> "", kind |-> "keep", n |-> 0]

SitePaths(slug) ==
    {IndexPath(slug), ExtraPath(slug)} \cup {ImagePath(slug, n) : n \in 1..MaxImages}

Paths == {ReadmePath, KeepPath} \cup UNION {SitePaths(s) : s \in Slugs}

\* A tree maps every path to its blob, or to Absent.
Trees == [Paths -> Contents \cup {Absent}]

InitialTree == [q \in Paths |-> IF q = ReadmePath THEN 1 ELSE Absent]

VARIABLES
    ref,        \* the branch pointer: the id of the tip commit
    commits,    \* the commit objects; a commit's id is its index
    trees,      \* the tree objects created so far
    blobs,      \* the blob objects created so far (their contents)
    pub,        \* per publish call: its inputs, locals and position
    del,        \* the deletePropertySite call
    upl,        \* the uploadFile call
    gen,        \* the POST /api/generate request being handled
    uploads,    \* the server's files by path: the content, or Gone
    lst,        \* the listPropertySites call
    api,        \* per route other than generate: the request being handled
    upr,        \* the POST /api/upload request in multer's hands
    cli         \* the form client: its photo list and its uploads in flight

vars == <<ref, commits, trees, blobs, pub, del, upl, gen, uploads, lst, api, upr, cli>>
repoVars == <<ref, commits, trees, blobs>>
otherVars == <<lst, api, upr, cli>>

TipTree == commits[ref].tree

\* c is d, or an ancestor of commit d.
RECURSIVE IsAncestor(_, _)
IsAncestor(c, d) ==
    \/ c = d
    \/ \E i \in DOMAIN commits[d].parents : IsAncestor(c, commits[d].parents[i])

\* ------------------------------------------------- publishPropertySite
\* The files list of publishPropertySite: index.html, then one entry per image
\* that has content.  images is a sequence of [n, base64Content].
RECURSIVE ImageFiles(_, _)
ImageFiles(slug, images) ==
    IF images = <<>> THEN <<>>
    ELSE LET image == Head(images)
             rest == ImageFiles(slug, Tail(images))
         IN  IF image.base64Content # EmptyContent
             THEN <<[path |-> ImagePath(slug, image.n),
                     content |-> image.base64Content]>> \o rest
             ELSE rest

PublishFiles(slug, htmlContent, images) ==
    <<[path |-> IndexPath(slug), content |-> htmlContent]>> \o ImageFiles(slug, images)

FilePaths(files) == {files[i].path : i \in DOMAIN files}

IdlePub ==
    [pc |-> "idle", slug |-> "", files |-> <<>>,
     currentCommitSha |-> 0, baseTreeSha |-> InitialTree,
     pending |-> {}, blobs |-> <<>>, treeSha |-> InitialTree, newCommitSha |-> 0,
     issued |-> {}, returned |-> {}, error |-> "", thrown |-> FALSE]

\* uploadMultipleFiles is entered: nothing has been called yet.
PublishPropertySite(p, propertySlug, htmlContent, images) ==
    /\ pub[p].pc = "idle"
    /\ pub' = [pub EXCEPT ![p] =
                  [IdlePub EXCEPT !.pc = "getRef", !.slug = propertySlug,
                                  !.files = PublishFiles(propertySlug, htmlContent, images)]]

\* (mutant) the catch block logs the error and does not rethrow it
Thrown_Swallowed(p, step, message) ==
    [pub[p] EXCEPT !.pc = "done", !.error = message, !.issued = @ \cup {step}]

\* The catch block of uploadMultipleFiles: log and rethrow; publishPropertySite
\* has no handler, so the error reaches its caller.
Thrown(p, step, message) ==
    [pub[p] EXCEPT !.pc = "failed", !.error = message, !.thrown = TRUE,
                   !.issued = @ \cup {step}]

Returned(p, step) ==
    [pub[p] EXCEPT !.issued = @ \cup {step}, !.returned = @ \cup {step}]

\* ------------------------------------------------- uploadMultipleFiles
\* git.getRef: the branch's current commit id.
GetRef(p) ==
    /\ pub[p].pc = "getRef"
    /\ \/ pub' = [pub EXCEPT ![p] =
                     [Returned(p, "getRef") EXCEPT !.pc = "getCommit",
                                                   !.currentCommitSha = ref]]
       \/ pub' = [pub EXCEPT ![p] = Thrown(p, "getRef", "unavailable")]
    /\ UNCHANGED <<repoVars, del, upl, gen, uploads, otherVars>>

\* git.getCommit: the commit's root tree.  Its continuation runs files.map, which
\* issues one createBlob call per file before Promise.all is awaited.
GetCommit(p) ==
    /\ pub[p].pc = "getCommit"
    /\ \/ pub' = [pub EXCEPT ![p] =
                     [Returned(p, "getCommit") EXCEPT
                         !.pc = "createBlob",
                         !.baseTreeSha = commits[pub[p].currentCommitSha].tree,
                         !.issued = @ \cup {"createBlob"},
                         !.pending = DOMAIN pub[p].files]]
       \/ pub' = [pub EXCEPT ![p] = Thrown(p, "getCommit", "unavailable")]
    /\ UNCHANGED <<repoVars, del, upl, gen, uploads, otherVars>>

\* The array Promise.all resolves to: one tree entry per file, in the files' order.
BlobEntries(files) ==
    [i \in DOMAIN files |-> [path |-> files[i].path, sha |-> files[i].content]]

\* Promise.all has every blob: the blobs array is complete and createTree is next.
AllBlobsReturned(p, i) ==
    [Returned(p, "createBlob") EXCEPT !.pc = "createTree", !.pending = @ \ {i},
                                      !.blobs = BlobEntries(pub[p].files)]

\* (mutant) the continuation runs as soon as any one call has returned
PromiseAllResolved_First(p, i) == TRUE

\* await Promise.all(...): resumes when the last call in flight has returned.
PromiseAllResolved(p, i) == pub[p].pending = {i}

\* One git.createBlob call returns.  The first failure rejects Promise.all; the
\* calls still in flight complete at the hosting service, their results unused.
CreateBlob(p, i) ==
    /\ i \in pub[p].pending
    /\ \/ /\ blobs' = blobs \cup {pub[p].files[i].content}
          /\ pub' = [pub EXCEPT ![p] =
                        IF pub[p].pc = "createBlob" /\ PromiseAllResolved(p, i)
                        THEN AllBlobsReturned(p, i)
                        ELSE [pub[p] EXCEPT !.pending = @ \ {i}]]
       \/ /\ blobs' = blobs
          /\ pub' = [pub EXCEPT ![p] =
                        IF pub[p].pc = "createBlob"
                        THEN [Thrown(p, "createBlob", "unavailable") EXCEPT
                                 !.pending = @ \ {i}]
                        ELSE [pub[p] EXCEPT !.pending = @ \ {i}]]
    /\ UNCHANGED <<ref, commits, trees, del, upl, gen, uploads, otherVars>>

\* The hosting service's createTree: the entries are laid onto the base tree one
\* after the other; an entry replaces what the tree holds at its path.
RECURSIVE LayerEntries(_, _)
LayerEntries(base, entries) ==
    IF entries = <<>> THEN base
    ELSE LayerEntries([base EXCEPT ![Head(entries).path] = Head(entries).sha],
                      Tail(entries))

\* (mutant) createTree answers with the base tree and drops the entries
NewTree_BaseOnly(baseTreeSha, entries) == baseTreeSha

\* (mutant) createTree is called without base_tree
NewTree_NoBase(baseTreeSha, entries) ==
    LayerEntries([q \in Paths |-> Absent], entries)

\* The tree git.createTree is asked for: base_tree baseTreeSha, tree blobs.
NewTree(baseTreeSha, entries) == LayerEntries(baseTreeSha, entries)

CreateTree(p) ==
    /\ pub[p].pc = "createTree"
    /\ \/ LET t == NewTree(pub[p].baseTreeSha, pub[p].blobs)
          IN  /\ trees' = trees \cup {t}
              /\ pub' = [pub EXCEPT ![p] =
                            [Returned(p, "createTree") EXCEPT !.pc = "createCommit",
                                                              !.treeSha = t]]
       \/ /\ trees' = trees
          /\ pub' = [pub EXCEPT ![p] = Thrown(p, "createTree", "unavailable")]
    /\ UNCHANGED <<ref, commits, blobs, del, upl, gen, uploads, otherVars>>

\* (mutant) the parent is the branch tip at the time of the call
NewCommit_TipParent(p) ==
    [parents |-> <<ref>>, tree |-> pub[p].treeSha, by |-> p]

\* The commit git.createCommit is asked for: tree treeData.sha, parents
\* [currentCommitSha].  by records the call that created it.
NewCommit(p) ==
    [parents |-> <<pub[p].currentCommitSha>>, tree |-> pub[p].treeSha, by |-> p]

CreateCommit(p) ==
    /\ pub[p].pc = "createCommit"
    /\ \/ /\ commits' = Append(commits, NewCommit(p))
          /\ pub' = [pub EXCEPT ![p] =
                        [Returned(p, "createCommit") EXCEPT
                            !.pc = "updateRef", !.newCommitSha = Len(commits) + 1]]
       \/ /\ commits' = commits
          /\ pub' = [pub EXCEPT ![p] = Thrown(p, "createCommit", "unavailable")]
    /\ UNCHANGED <<ref, trees, blobs, del, upl, gen, uploads, otherVars>>

\* git.updateRef is called with ref and sha only: force is left out, and the
\* hosting service then moves the pointer only when the update is a fast-forward.
\* (mutant) the pointer update is forced
UpdateRefAccepted_Force(sha) == TRUE

UpdateRefAccepted(sha) == IsAncestor(ref, sha)

UpdateRef(p) ==
    /\ pub[p].pc = "updateRef"
    /\ \/ /\ UpdateRefAccepted(pub[p].newCommitSha)
          /\ ref' = pub[p].newCommitSha
          /\ pub' = [pub EXCEPT ![p] = [Returned(p, "updateRef") EXCEPT !.pc = "done"]]
       \/ /\ ~UpdateRefAccepted(pub[p].newCommitSha)
          /\ ref' = ref
          /\ pub' = [pub EXCEPT ![p] = Thrown(p, "updateRef", "not_fast_forward")]
       \/ /\ ref' = ref
          /\ pub' = [pub EXCEPT ![p] = Thrown(p, "updateRef", "unavailable")]
    /\ UNCHANGED <<commits, trees, blobs, del, upl, gen, uploads, otherVars>>

UploadMultipleFiles(p) ==
    \/ GetRef(p)
    \/ GetCommit(p)
    \/ \E i \in pub[p].pending : CreateBlob(p, i)
    \/ CreateTree(p)
    \/ CreateCommit(p)
    \/ UpdateRef(p)

\* ------------------------------------------------------- initial state
InitialCommit == [parents |-> <<>>, tree |-> InitialTree, by |-> "init"]

\* deletePropertySite before it is called.  files is the listing it enumerates, k
\* the entry the loop is at, calls the remove calls issued, removed the entries
\* removed, base the branch tip the listing was read from.
IdleDel ==
    [pc |-> "idle", slug |-> "", files |-> <<>>, k |-> 0, calls |-> 0,
     removed |-> {}, base |-> 0, error |-> "", thrown |-> FALSE]

\* uploadFile before it is called.  NoSha is "sha undefined".
NoSha == 0

IdleUpl ==
    [pc |-> "idle", path |-> ReadmePath, content |-> EmptyContent, sha |-> NoSha,
     calls |-> 0, error |-> "", thrown |-> FALSE]
\* The upload store and the server's other files, by the path a request names
\* them with (joined to the server's directory): two staged images, a staged
\* file of zero bytes, a staged file that is not there, a file outside uploads/.
StagedPaths == {"/uploads/1.jpg", "/uploads/2.png", "/uploads/empty.jpg", "/uploads/gone.jpg"}
ServerPaths == StagedPaths \cup {"/src/github.js"}

\* A file that does not exist.
Gone == -1

InitialUploads ==
    [f \in ServerPaths |->
        CASE f = "/uploads/1.jpg" -> 1
          [] f = "/uploads/2.png" -> 2
          [] f = "/uploads/empty.jpg" -> EmptyContent
          [] f = "/uploads/gone.jpg" -> Gone
          [] OTHER -> 2]

\* The request handler before a request arrives.  sent counts the answers
\* written to the request, answered is the record of the requests the server
\* has answered before this one.
IdleGen ==
    [pc |-> "idle", configured |-> FALSE, data |-> <<>>, photosIn |-> <<>>,
     missingFields |-> <<>>, propertySlug |-> "", i |-> 0, photos |-> <<>>,
     rendered |-> <<>>, htmlContent |-> EmptyContent, reads |-> {}, unlinks |-> {},
     response |-> [status |-> 0], sent |-> 0, answered |-> <<>>]

\* listPropertySites before it is called.  base is the branch tip the listing
\* was read from.
IdleLst ==
    [pc |-> "idle", result |-> <<>>, base |-> 0, error |-> "", thrown |-> FALSE]

\* The routes other than POST /api/generate, and a route's handler before a
\* request arrives.  sent counts the answers written to the request being
\* handled, answered holds the answers to the requests before it.
Routes == {"list", "delete", "upload", "preview"}

IdleRoute ==
    [pc |-> "idle", configured |-> FALSE, response |-> [status |-> 0],
     sent |-> 0, answered |-> <<>>]

\* multer before a POST /api/upload request: seen counts the file parts of
\* the photos field met so far, stored the files written to the upload store for
\* this request, kinds which files those are.
IdleUpr == [pc |-> "idle", seen |-> 0, stored |-> 0, kinds |-> {}, error |-> ""]

\* The form client when the page has loaded: uploadedPhotos is the length of
\* its photo list, inflight the upload requests not yet answered, each with
\* the number of files appended to it; generating and previewing count the
\* calls of generateSite and previewSite that wait for their answer, disabled is
\* the Generate button's disabled property, previewModal the preview dialog
\* being shown.
IdleCli ==
    [uploadedPhotos |-> 0, inflight |-> <<>>,
     generating |-> 0, disabled |-> FALSE, previewing |-> 0, previewModal |-> FALSE]

Init ==
    /\ ref = 1
    /\ commits = <<InitialCommit>>
    /\ trees = {InitialTree}
    /\ blobs = {1}
    /\ pub = [p \in Procs |-> IdlePub]
    /\ del = IdleDel
    /\ upl = IdleUpl
    /\ gen = IdleGen
    /\ uploads = InitialUploads
    /\ lst = IdleLst
    /\ api = [r \in Routes |-> IdleRoute]
    /\ upr = IdleUpr
    /\ cli = IdleCli

\* ------------------------------------- publishes called side by side
\* The images of a direct publishPropertySite call: photo-n for n in S, ascending.
RECURSIVE ImagesOf(_, _, _)
ImagesOf(S, n, content) ==
    IF n > MaxImages THEN <<>>
    ELSE IF n \in S
         THEN <<[n |-> n, base64Content |-> content]>> \o ImagesOf(S, n + 1, content)
         ELSE ImagesOf(S, n + 1, content)

StartPublish(p) ==
    /\ pub[p].pc = "idle"
    /\ \E slug \in Slugs, content \in Contents, S \in SUBSET (1..MaxImages) :
          PublishPropertySite(p, slug, content, ImagesOf(S, 1, content))
    /\ UNCHANGED <<repoVars, del, upl, gen, uploads, otherVars>>

Next ==
    \E p \in Publishers :
        \/ StartPublish(p)
        \/ UploadMultipleFiles(p)

Spec == Init /\ [][Next]_vars

\* ------------------------------------------------------- contents API
\* A commit the hosting service makes on the branch tip for a contents call.
TipCommit(tree, by) == [parents |-> <<ref>>, tree |-> tree, by |-> by]

\* ---------------------------------------------------------- uploadFile
UploadFile(path, content) ==
    /\ upl.pc = "idle"
    /\ upl' = [IdleUpl EXCEPT !.pc = "getContent", !.path = path, !.content = content]
    /\ UNCHANGED <<repoVars, pub, del, gen, uploads, otherVars>>

\* repos.getContent in the inner try: the file's sha, or any error swallowed and
\* sha left undefined.
UploadGetContent ==
    /\ upl.pc = "getContent"
    /\ \/ /\ TipTree[upl.path] # Absent
          /\ upl' = [upl EXCEPT !.pc = "createOrUpdate", !.sha = TipTree[upl.path]]
       \/ /\ TipTree[upl.path] = Absent
          /\ upl' = [upl EXCEPT !.pc = "createOrUpdate", !.sha = NoSha]
       \/ upl' = [upl EXCEPT !.pc = "createOrUpdate", !.sha = NoSha]
    /\ UNCHANGED <<repoVars, pub, del, gen, uploads, otherVars>>

\* A service on which the last writer wins: every call is accepted.
CreateOrUpdateAccepted_Always == TRUE

\* repos.createOrUpdateFileContents, with sha only when one was read.  The service
\* updates an existing file only against its current sha and creates a missing
\* file; a sha sent for a file that is no longer there may be answered either way.
CreateOrUpdateAccepted ==
    \/ TipTree[upl.path] # Absent /\ upl.sha = TipTree[upl.path]
    \/ TipTree[upl.path] = Absent

CreateOrUpdateRejected ==
    \/ TipTree[upl.path] # Absent /\ upl.sha # TipTree[upl.path]
    \/ TipTree[upl.path] = Absent /\ upl.sha # NoSha

UploadCreateOrUpdate ==
    /\ upl.pc = "createOrUpdate"
    /\ \/ /\ CreateOrUpdateAccepted
          /\ LET t == [TipTree EXCEPT ![upl.path] = upl.content]
             IN  /\ commits' = Append(commits, TipCommit(t, "upl"))
                 /\ trees' = trees \cup {t}
                 /\ blobs' = blobs \cup {upl.content}
                 /\ ref' = Len(commits) + 1
          /\ upl' = [upl EXCEPT !.pc = "done", !.calls = @ + 1]
       \/ /\ CreateOrUpdateRejected
          /\ upl' = [upl EXCEPT !.pc = "failed", !.calls = @ + 1,
                                !.error = "conflict", !.thrown = TRUE]
          /\ UNCHANGED repoVars
       \/ /\ upl' = [upl EXCEPT !.pc = "failed", !.calls = @ + 1,
                                !.error = "unavailable", !.thrown = TRUE]
          /\ UNCHANGED repoVars
    /\ UNCHANGED <<pub, del, gen, uploads, otherVars>>

\* --------------------------------------------------- listPropertySites
\* The names listPropertySites returns: the children of properties/ that are
\* directories, i.e. the slugs with a file below them.
ListedSlugs(tree) == {s \in Slugs : \E q \in SitePaths(s) : tree[q] # Absent}

\* -------------------------------------------------- deletePropertySite
\* properties/<slug>/images, a directory.
ImagesDir(slug) == [slug |-> slug, kind |-> "images", n |-> 0]

HasImages(slug, tree) == \E n \in 1..MaxImages : tree[ImagePath(slug, n)] # Absent

\* repos.getContent of properties/<slug>: the immediate children, by name
\* (about.html, images, index.html).  A directory's sha is its subtree's, which
\* is no blob's.
Listing(slug, tree) ==
    (IF tree[ExtraPath(slug)] # Absent
     THEN <<[path |-> ExtraPath(slug), type |-> "file", sha |-> tree[ExtraPath(slug)]]>>
     ELSE <<>>)
    \o (IF HasImages(slug, tree)
        THEN <<[path |-> ImagesDir(slug), type |-> "dir", sha |-> NoSha]>>
        ELSE <<>>)
    \o (IF tree[IndexPath(slug)] # Absent
        THEN <<[path |-> IndexPath(slug), type |-> "file", sha |-> tree[IndexPath(slug)]]>>
        ELSE <<>>)

DeletePropertySite(propertySlug) ==
    /\ del.pc = "idle"
    /\ del' = [IdleDel EXCEPT !.pc = "getContent", !.slug = propertySlug]

\* (mutant) the loop catches the error of one remove call and goes on
DeleteThrown_Continue(message) ==
    [del EXCEPT !.error = message, !.k = @ + 1,
                !.pc = IF del.k = Len(del.files) THEN "done" ELSE "deleteFile"]

\* The catch block of deletePropertySite: log and rethrow.
DeleteThrown(message) ==
    [del EXCEPT !.pc = "failed", !.error = message, !.thrown = TRUE]

DeleteGetContent ==
    /\ del.pc = "getContent"
    /\ \/ /\ Listing(del.slug, TipTree) # <<>>
          /\ del' = [del EXCEPT !.pc = "deleteFile", !.k = 1, !.base = ref,
                                !.files = Listing(del.slug, TipTree)]
       \/ /\ Listing(del.slug, TipTree) = <<>>
          /\ del' = DeleteThrown("not_found")
       \/ del' = DeleteThrown("unavailable")
    /\ UNCHANGED <<repoVars, pub, upl, gen, uploads, otherVars>>

\* repos.deleteFile removes a file whose blob is the sha sent.
DeleteFileAccepted(file) ==
    /\ file.type = "file"
    /\ TipTree[file.path] = file.sha

\* The loop's await of repos.deleteFile for entry k, and what follows it.
DeleteFile ==
    /\ del.pc = "deleteFile"
    /\ LET file == del.files[del.k]
       IN  \/ /\ DeleteFileAccepted(file)
              /\ LET t == [TipTree EXCEPT ![file.path] = Absent]
                 IN  /\ commits' = Append(commits, TipCommit(t, "del"))
                     /\ trees' = trees \cup {t}
                     /\ ref' = Len(commits) + 1
              /\ blobs' = blobs
              /\ del' = [del EXCEPT !.calls = @ + 1, !.k = @ + 1,
                                    !.removed = @ \cup {file.path},
                                    !.pc = IF del.k = Len(del.files)
                                           THEN "done" ELSE "deleteFile"]
           \/ /\ ~DeleteFileAccepted(file)
              /\ del' = [DeleteThrown(IF file.type = "dir" THEN "not_a_file"
                                      ELSE "conflict") EXCEPT !.calls = @ + 1]
              /\ UNCHANGED repoVars
           \/ /\ del' = [DeleteThrown("unavailable") EXCEPT !.calls = @ + 1]
              /\ UNCHANGED repoVars
    /\ UNCHANGED <<pub, upl, gen, uploads, otherVars>>

\* -------------------- a publish, an upload and a delete side by side
StartUpload ==
    /\ upl.pc = "idle"
    /\ \E path \in Paths, content \in Contents : UploadFile(path, content)

StartDelete ==
    /\ del.pc = "idle"
    /\ \E slug \in Slugs : DeletePropertySite(slug)
    /\ UNCHANGED <<repoVars, pub, upl, gen, uploads, otherVars>>

NextDelete ==
    \/ StartPublish("p1")
    \/ UploadMultipleFiles("p1")
    \/ StartUpload
    \/ UploadGetContent
    \/ UploadCreateOrUpdate
    \/ StartDelete
    \/ DeleteGetContent
    \/ DeleteFile

SpecDelete == Init /\ [][NextDelete]_vars

\* ------------------------- an upload of a page beside two publishes
\* publishPropertySite called with a page and no images.
StartPagePublish(p) ==
    /\ pub[p].pc = "idle"
    /\ \E slug \in Slugs, content \in Contents :
          PublishPropertySite(p, slug, content, <<>>)
    /\ UNCHANGED <<repoVars, del, upl, gen, uploads, otherVars>>

\* uploadFile called with the path of a page.
StartPageUpload ==
    /\ upl.pc = "idle"
    /\ \E slug \in Slugs, content \in Contents : UploadFile(IndexPath(slug), content)

NextUploadFile ==
    \/ \E p \in Publishers : StartPagePublish(p)
    \/ \E p \in Publishers : UploadMultipleFiles(p)
    \/ StartPageUpload
    \/ UploadGetContent
    \/ UploadCreateOrUpdate

SpecUploadFile == Init /\ [][NextUploadFile]_vars

\* ------------------------------------------------- POST /api/generate
requiredFields ==
    << "property.address", "property.city", "property.state", "property.zip",
       "property.price", "property.bedrooms", "property.bathrooms", "property.sqft",
       "property.yearBuilt", "property.description",
       "realtor.name", "realtor.company", "realtor.license", "realtor.phone",
       "realtor.email",
       "loanOfficer.name", "loanOfficer.company", "loanOfficer.nmls",
       "loanOfficer.phone", "loanOfficer.email" >>

FieldNames == {requiredFields[k] : k \in DOMAIN requiredFields}

\* Values a field of the JSON body can have: none, the empty string, the number
\* 0, or a text.
Undefined == "undefined"
EmptyString == ""
NumberZero == "0 (number)"

\* !value
Falsy(value) == value \in {Undefined, EmptyString, NumberZero}

\* The validation loop from field k on: the fields whose value is falsy.
RECURSIVE MissingFrom(_, _)
MissingFrom(data, k) ==
    IF k > Len(requiredFields) THEN <<>>
    ELSE (IF Falsy(data[requiredFields[k]]) THEN <<requiredFields[k]>> ELSE <<>>)
         \o MissingFrom(data, k + 1)

\* slugify(`${address}-${city}`, { lower: true, strict: true }) on the texts the
\* requests carry.
Slugify(address, city) ==
    CASE address = "1 Main St" /\ city = "Springfield" -> "1-main-st-springfield"
      [] address = "2 Elm St" /\ city = "Springfield" -> "2-elm-st-springfield"
      [] address = "1 MAIN ST." /\ city = "Springfield" -> "1-main-st-springfield"

\* generatePropertyHTML: the document lists the photos' urls, so it differs with
\* the number of photos.
GeneratePropertyHTML(photos) == IF photos = <<>> THEN 1 ELSE 2

\* photos.filter(p => p.base64Content), as publishPropertySite's images
RECURSIVE StagedImages(_)
StagedImages(photos) ==
    IF photos = <<>> THEN <<>>
    ELSE (IF Head(photos).base64Content # EmptyContent
          THEN <<[n |-> Head(photos).n, base64Content |-> Head(photos).base64Content]>>
          ELSE <<>>)
         \o StagedImages(Tail(photos))

\* (mutant) the list is handed over last photo first
RenderedPhotos_Reversed(photos) ==
    [k \in DOMAIN photos |->
        [url |-> photos[Len(photos) + 1 - k].url,
         label |-> photos[Len(photos) + 1 - k].label]]

\* photos.map(p => ({ url: p.url, label: p.label })), the renderer's photos
RenderedPhotos(photos) ==
    [k \in DOMAIN photos |-> [url |-> photos[k].url, label |-> photos[k].label]]

\* (mutant) the answer is written a second time
Respond_Twice(response) ==
    [gen EXCEPT !.pc = "responded", !.response = response, !.sent = @ + 2]

\* res.json(...) or res.status(...).json(...)
Respond(response) ==
    [gen EXCEPT !.pc = "responded", !.response = response, !.sent = @ + 1]

\* A request arrives: its body, and whether GITHUB_TOKEN is set.
GenerateRequest(data, photos, configured) ==
    /\ gen.pc = "idle"
    /\ gen' = [IdleGen EXCEPT !.pc = "validate", !.data = data, !.photosIn = photos,
                              !.configured = configured, !.answered = gen.answered]
    /\ UNCHANGED <<repoVars, pub, del, upl, uploads, otherVars>>

\* Validate required fields; answer 400 or go on to the slug.
GenerateValidate ==
    /\ gen.pc = "validate"
    /\ LET missingFields == MissingFrom(gen.data, 1)
       IN  gen' = IF Len(missingFields) > 0
                  THEN [Respond([status |-> 400, success |-> FALSE,
                                 error |-> "Missing required fields",
                                 missingFields |-> missingFields])
                           EXCEPT !.missingFields = missingFields]
                  ELSE [gen EXCEPT
                           !.pc = "photos", !.i = 1,
                           !.propertySlug = Slugify(gen.data["property.address"],
                                                    gen.data["property.city"])]
    /\ UNCHANGED <<repoVars, pub, del, upl, uploads, otherVars>>

\* The number N of the filename photo-N: every staged photo is named photo-1.
Filename_First(photos) == 1

\* const filename = `photo-${photos.length + 1}${ext}`: the number N of the
\* filename, from the photos pushed so far.
Filename(photos) == Len(photos) + 1

\* One pass of the photo loop: an external url, or a staged file read into
\* base64 and named photo-<photos.length + 1>, or a read error logged.
GeneratePhoto ==
    /\ gen.pc = "photos"
    /\ gen.i <= Len(gen.photosIn)
    /\ LET photo == gen.photosIn[gen.i]
       IN  \/ /\ photo.url # EmptyString
              /\ gen' = [gen EXCEPT !.i = @ + 1,
                            !.photos = Append(@, [url |-> photo.url, n |-> 0,
                                                  label |-> photo.label,
                                                  base64Content |-> EmptyContent])]
           \/ /\ photo.url = EmptyString
              /\ photo.path # EmptyString
              /\ uploads[photo.path] # Gone
              /\ gen' = [gen EXCEPT !.i = @ + 1, !.reads = @ \cup {photo.path},
                            !.photos = Append(@, [url |-> "./images", n |-> Filename(@),
                                                  label |-> photo.label,
                                                  base64Content |-> uploads[photo.path]])]
           \/ /\ photo.url = EmptyString
              /\ photo.path # EmptyString
              /\ gen' = [gen EXCEPT !.i = @ + 1, !.reads = @ \cup {photo.path}]
           \/ /\ photo.url = EmptyString
              /\ photo.path = EmptyString
              /\ gen' = [gen EXCEPT !.i = @ + 1]
    /\ UNCHANGED <<repoVars, pub, del, upl, uploads, otherVars>>

\* After the loop: render, then publish when GITHUB_TOKEN is set, or answer with
\* the document.
GenerateRender ==
    /\ gen.pc = "photos"
    /\ gen.i > Len(gen.photosIn)
    /\ LET rendered == RenderedPhotos(gen.photos)
           htmlContent == GeneratePropertyHTML(rendered)
       IN  IF gen.configured
           THEN /\ PublishPropertySite("g", gen.propertySlug, htmlContent,
                                       StagedImages(gen.photos))
                /\ gen' = [gen EXCEPT !.pc = "publish", !.rendered = rendered,
                                      !.htmlContent = htmlContent]
           ELSE /\ gen' = [Respond([status |-> 200, success |-> TRUE,
                                    published |-> FALSE, html |-> htmlContent])
                              EXCEPT !.rendered = rendered,
                                     !.htmlContent = htmlContent]
                /\ pub' = pub
    /\ UNCHANGED <<repoVars, del, upl, uploads, otherVars>>

\* publishPropertySite returned: the cleanup loop starts.
GeneratePublished ==
    /\ gen.pc = "publish"
    /\ pub["g"].pc = "done"
    /\ gen' = [gen EXCEPT !.pc = "cleanup", !.i = 1]
    /\ UNCHANGED <<repoVars, pub, del, upl, uploads, otherVars>>

\* (mutant) the cleanup loop runs although publishPropertySite threw
GenerateFailed_Cleanup ==
    /\ gen.pc = "publish"
    /\ pub["g"].pc = "failed"
    /\ gen' = [gen EXCEPT !.pc = "cleanup", !.i = 1]
    /\ UNCHANGED <<repoVars, pub, del, upl, uploads, otherVars>>

\* publishPropertySite threw: the handler's catch answers 500.
GenerateFailed ==
    /\ gen.pc = "publish"
    /\ pub["g"].pc = "failed"
    /\ gen' = Respond([status |-> 500, success |-> FALSE, error |-> pub["g"].error])
    /\ UNCHANGED <<repoVars, pub, del, upl, uploads, otherVars>>

\* One pass of the cleanup loop: unlink the photo's path, errors ignored.
GenerateCleanup ==
    /\ gen.pc = "cleanup"
    /\ gen.i <= Len(gen.photosIn)
    /\ LET photo == gen.photosIn[gen.i]
       IN  \/ /\ photo.path # EmptyString
              /\ uploads[photo.path] # Gone
              /\ uploads' = [uploads EXCEPT ![photo.path] = Gone]
              /\ gen' = [gen EXCEPT !.i = @ + 1, !.unlinks = @ \cup {photo.path}]
           \/ /\ photo.path # EmptyString
              /\ uploads' = uploads
              /\ gen' = [gen EXCEPT !.i = @ + 1, !.unlinks = @ \cup {photo.path}]
           \/ /\ photo.path = EmptyString
              /\ uploads' = uploads
              /\ gen' = [gen EXCEPT !.i = @ + 1]
    /\ UNCHANGED <<repoVars, pub, del, upl, otherVars>>

GenerateRespond ==
    /\ gen.pc = "cleanup"
    /\ gen.i > Len(gen.photosIn)
    /\ gen' = Respond([status |-> 200, success |-> TRUE, published |-> TRUE,
                       propertySlug |-> gen.propertySlug])
    /\ UNCHANGED <<repoVars, pub, del, upl, uploads, otherVars>>

\* ------------------------------------------------ the requests drawn
\* The fields the requests vary, and the values they give them; every other
\* required field carries a text.
VariedFields ==
    {"property.address", "property.price", "property.bathrooms", "loanOfficer.email"}

FieldValues(field) ==
    CASE field = "property.address" -> {Undefined, EmptyString, "1 Main St", "2 Elm St"}
      [] field = "loanOfficer.email" -> {Undefined, EmptyString, "text"}
      [] OTHER -> {Undefined, EmptyString, NumberZero, "text"}

\* data.realtor.photo and data.loanOfficer.photo: the staged path the form client
\* puts there after a contact-photo upload, or nothing.
ContactPhotoFields == {"realtor.photo", "loanOfficer.photo"}

ContactPhotos ==
    {[f \in ContactPhotoFields |-> Undefined],
     [f \in ContactPhotoFields |-> IF f = "realtor.photo" THEN "/uploads/1.jpg"
                                   ELSE Undefined],
     [f \in ContactPhotoFields |-> IF f = "loanOfficer.photo" THEN "/uploads/2.png"
                                   ELSE Undefined]}

Bodies ==
    {[f \in FieldNames \cup ContactPhotoFields |->
         IF f \in VariedFields THEN v[f]
         ELSE IF f \in ContactPhotoFields THEN c[f]
         ELSE IF f = "property.city" THEN "Springfield" ELSE "text"] :
     v \in {w \in [VariedFields -> {Undefined, EmptyString, NumberZero, "text",
                                    "1 Main St", "2 Elm St"}] :
               \A f \in VariedFields : w[f] \in FieldValues(f)},
     c \in ContactPhotos}

PhotoChoices ==
    {[url |-> "https://example.com/p.jpg", path |-> EmptyString],
     [url |-> EmptyString, path |-> EmptyString]}
    \cup {[url |-> EmptyString, path |-> f] : f \in ServerPaths}

PhotoLists == UNION {[1..k -> PhotoChoices] : k \in 0..MaxImages}

\* The photos with their captions: a photo's label tells its place in the
\* request.
Labelled(photos) ==
    [k \in DOMAIN photos |->
        [url |-> photos[k].url, path |-> photos[k].path, label |-> k]]

StartGenerate ==
    /\ gen.pc = "idle"
    /\ \E data \in Bodies, photos \in PhotoLists, configured \in BOOLEAN :
          GenerateRequest(data, Labelled(photos), configured)

NextGenerate ==
    \/ StartGenerate
    \/ GenerateValidate
    \/ GeneratePhoto
    \/ GenerateRender
    \/ UploadMultipleFiles("g")
    \/ GeneratePublished
    \/ GenerateFailed
    \/ GenerateCleanup
    \/ GenerateRespond

SpecGenerate == Init /\ [][NextGenerate]_vars

\* ------------------------------------- one submission after another
\* The server has answered and takes the next POST /api/generate: the handler's
\* locals are new, the repository and the upload store are what the requests
\* before left.
Submissions == {1, 2}

GenerateNext ==
    /\ gen.pc = "responded"
    /\ Len(gen.answered) + 1 < Cardinality(Submissions)
    /\ gen' = [IdleGen EXCEPT !.answered =
                  Append(gen.answered,
                         [data |-> gen.data, propertySlug |-> gen.propertySlug,
                          htmlContent |-> gen.htmlContent, response |-> gen.response])]
    /\ pub' = [pub EXCEPT !["g"] = IdlePub]
    /\ UNCHANGED <<repoVars, del, upl, uploads, otherVars>>

\* The forms submitted one after another: the same address twice, the same
\* address in other letters, another address, or no address.
ResubmitBodies ==
    {[f \in FieldNames \cup ContactPhotoFields |->
         IF f = "property.address" THEN address
         ELSE IF f \in ContactPhotoFields THEN Undefined
         ELSE IF f = "property.city" THEN "Springfield" ELSE "text"] :
     address \in {"1 Main St", "1 MAIN ST.", "2 Elm St", EmptyString}}

ResubmitPhotoLists == {<<>>} \cup {<<photo>> : photo \in PhotoChoices}

StartResubmit ==
    /\ gen.pc = "idle"
    /\ \E data \in ResubmitBodies, photos \in ResubmitPhotoLists :
          GenerateRequest(data, Labelled(photos), TRUE)

NextResubmit ==
    \/ StartResubmit
    \/ GenerateValidate
    \/ GeneratePhoto
    \/ GenerateRender
    \/ UploadMultipleFiles("g")
    \/ GeneratePublished
    \/ GenerateFailed
    \/ GenerateCleanup
    \/ GenerateRespond
    \/ GenerateNext

SpecResubmit == Init /\ [][NextResubmit]_vars

\* --------------------------------------------------- listPropertySites
\* The slugs by name, as a directory listing orders them.
SlugsByName == <<"1-main-st-springfield", "2-elm-st-springfield">>

\* repos.getContent of properties: the immediate children by name, .gitkeep
\* first.
PropertiesListing(tree) ==
    (IF tree[KeepPath] # Absent THEN <<[name |-> ".gitkeep", type |-> "file"]>> ELSE <<>>)
    \o [k \in 1..Len(SelectSeq(SlugsByName, LAMBDA s : s \in ListedSlugs(tree))) |->
          [name |-> SelectSeq(SlugsByName, LAMBDA s : s \in ListedSlugs(tree))[k],
           type |-> "dir"]]

\* (mutant) the listing is mapped without the filter
IsDir_Any(item) == TRUE

\* item => item.type === 'dir'
IsDir(item) == item.type = "dir"

\* data.filter(...).map(item => ({ slug, url }))
SitesOf(data) ==
    [k \in 1..Len(SelectSeq(data, IsDir)) |->
        [slug |-> SelectSeq(data, IsDir)[k].name,
         url |-> <<"properties", SelectSeq(data, IsDir)[k].name>>]]

ListPropertySites ==
    /\ lst.pc = "idle"
    /\ lst' = [IdleLst EXCEPT !.pc = "getContent"]

\* The await of repos.getContent: the listing, or status 404 when the
\* repository has no properties path, or another error.
ListGetContent ==
    /\ lst.pc = "getContent"
    /\ \/ /\ PropertiesListing(TipTree) # <<>>
          /\ lst' = [lst EXCEPT !.pc = "done", !.base = ref,
                                !.result = SitesOf(PropertiesListing(TipTree))]
       \/ /\ PropertiesListing(TipTree) = <<>>
          /\ lst' = [lst EXCEPT !.pc = "done", !.base = ref, !.result = <<>>,
                                !.error = "not_found"]
       \/ lst' = [lst EXCEPT !.pc = "failed", !.error = "unavailable",
                             !.thrown = TRUE]
    /\ UNCHANGED <<repoVars, pub, del, upl, gen, uploads, api, upr, cli>>

\* ------------------------------------------------- GET /api/properties
RouteRespond(r, response) ==
    [api EXCEPT ![r] = [@ EXCEPT !.pc = "responded", !.response = response,
                                 !.sent = @ + 1]]

\* A request arrives: answered at once without GITHUB_TOKEN, else
\* listPropertySites is awaited.
ListRequest(configured) ==
    /\ api["list"].pc = "idle"
    /\ IF configured
       THEN /\ ListPropertySites
            /\ api' = [api EXCEPT !["list"] = [@ EXCEPT !.pc = "await",
                                                        !.configured = TRUE]]
       ELSE /\ api' = RouteRespond("list", [status |-> 200, success |-> TRUE,
                                            properties |-> <<>>])
            /\ lst' = lst
    /\ UNCHANGED <<repoVars, pub, del, upl, gen, uploads, upr, cli>>

\* listPropertySites returned or threw.
ListAnswer ==
    /\ api["list"].pc = "await"
    /\ \/ /\ lst.pc = "done"
          /\ api' = RouteRespond("list", [status |-> 200, success |-> TRUE,
                                          properties |-> lst.result])
       \/ /\ lst.pc = "failed"
          /\ api' = RouteRespond("list", [status |-> 500, success |-> FALSE,
                                          error |-> lst.error])
    /\ UNCHANGED <<repoVars, pub, del, upl, gen, uploads, lst, upr, cli>>

StartList ==
    /\ api["list"].pc = "idle"
    /\ \E configured \in BOOLEAN : ListRequest(configured)

NextList ==
    \/ StartPublish("p1")
    \/ UploadMultipleFiles("p1")
    \/ StartUpload
    \/ UploadGetContent
    \/ UploadCreateOrUpdate
    \/ StartList
    \/ ListGetContent
    \/ ListAnswer

SpecList == Init /\ [][NextList]_vars

\* ------------------------------------------ DELETE /api/properties/:slug
\* A request arrives: answered 400 without GITHUB_TOKEN, else
\* deletePropertySite(req.params.slug) is awaited.
DeleteRequest(slug, configured) ==
    /\ api["delete"].pc = "idle"
    /\ IF configured
       THEN /\ DeletePropertySite(slug)
            /\ api' = [api EXCEPT !["delete"] = [@ EXCEPT !.pc = "await",
                                                          !.configured = TRUE]]
       ELSE /\ api' = RouteRespond("delete", [status |-> 400, success |-> FALSE,
                                              error |-> "GitHub not configured"])
            /\ del' = del
    /\ UNCHANGED <<repoVars, pub, upl, gen, uploads, lst, upr, cli>>

\* deletePropertySite returned, or threw into the handler's catch.
DeleteAnswer ==
    /\ api["delete"].pc = "await"
    /\ \/ /\ del.pc = "done"
          /\ api' = RouteRespond("delete", [status |-> 200, success |-> TRUE,
                                            message |-> "Property site deleted"])
       \/ /\ del.pc = "failed"
          /\ api' = RouteRespond("delete", [status |-> 500, success |-> FALSE,
                                            error |-> del.error])
    /\ UNCHANGED <<repoVars, pub, del, upl, gen, uploads, lst, upr, cli>>

\* The route has answered and takes its next request.
RouteNext(r) ==
    /\ api[r].pc = "responded"
    /\ Len(api[r].answered) + 1 < Cardinality(Submissions)
    /\ api' = [api EXCEPT ![r] =
                  [IdleRoute EXCEPT !.answered = Append(api[r].answered,
                                                        api[r].response)]]

DeleteNext ==
    /\ RouteNext("delete")
    /\ del' = IdleDel
    /\ UNCHANGED <<repoVars, pub, upl, gen, uploads, lst, upr, cli>>

StartDeleteRequest ==
    /\ api["delete"].pc = "idle"
    /\ \E slug \in Slugs, configured \in BOOLEAN : DeleteRequest(slug, configured)

NextDeleteRoute ==
    \/ StartPublish("p1")
    \/ UploadMultipleFiles("p1")
    \/ StartDeleteRequest
    \/ DeleteGetContent
    \/ DeleteFile
    \/ DeleteAnswer
    \/ DeleteNext

SpecDeleteRoute == Init /\ [][NextDeleteRoute]_vars

\* --------------------------------------------------- POST /api/upload
\* Texts are sequences of characters, so that extname, toLowerCase and the
\* regular expression work on them as they do in the code.
Alternatives == {<<"j", "p", "e", "g">>, <<"j", "p", "g">>, <<"p", "n", "g">>, <<"g", "i", "f">>, <<"w", "e", "b", "p">>}

\* allowedTypes.test(text): some alternative occurs somewhere in the text.
RegexTest(text) ==
    \E alt \in Alternatives :
        \E i \in 1..Len(text) :
            /\ i + Len(alt) - 1 <= Len(text)
            /\ SubSeq(text, i, i + Len(alt) - 1) = alt

\* toLowerCase on the letters the names carry
ToLowerCase(text) ==
    [k \in DOMAIN text |->
        CASE text[k] = "P" -> "p" [] text[k] = "N" -> "n" [] text[k] = "G" -> "g"
          [] text[k] = "A" -> "a" [] OTHER -> text[k]]

\* path.extname: from the last dot to the end; nothing when there is no dot or
\* the only dot is the first character.
ExtName(name) ==
    LET dots == {i \in DOMAIN name : name[i] = "."}
        last == CHOOSE i \in dots : \A j \in dots : j <= i
    IN  IF dots = {} \/ last = 1 THEN <<>> ELSE SubSeq(name, last, Len(name))

\* fileFilter: cb(null, true) when both tests pass, else the error.
FileFilter(file) ==
    /\ RegexTest(ToLowerCase(ExtName(file.originalname)))
    /\ RegexTest(file.mimetype)

\* The files a request can carry: images, an image named in capitals, a text
\* file, an image name with a text type, an svg, a name whose extension only
\* contains "jpg", a type that only contains "png", and an image over the
\* fileSize limit.
Files ==
    {[originalname |-> <<"a", ".", "j", "p", "g">>, mimetype |-> <<"i", "m", "a", "g", "e", "/", "j", "p", "e", "g">>, size |-> "small"],
     [originalname |-> <<"A", ".", "P", "N", "G">>, mimetype |-> <<"i", "m", "a", "g", "e", "/", "p", "n", "g">>, size |-> "small"],
     [originalname |-> <<"a", ".", "t", "x", "t">>, mimetype |-> <<"t", "e", "x", "t", "/", "p", "l", "a", "i", "n">>, size |-> "small"],
     [originalname |-> <<"a", ".", "j", "p", "g">>, mimetype |-> <<"t", "e", "x", "t", "/", "h", "t", "m", "l">>, size |-> "small"],
     [originalname |-> <<"a", ".", "s", "v", "g">>, mimetype |-> <<"i", "m", "a", "g", "e", "/", "p", "n", "g">>, size |-> "small"],
     [originalname |-> <<"a", ".", "j", "p", "g", "x">>, mimetype |-> <<"i", "m", "a", "g", "e", "/", "j", "p", "e", "g">>, size |-> "small"],
     [originalname |-> <<"a", ".", "p", "n", "g">>, mimetype |-> <<"a", "p", "p", "l", "i", "c", "a", "t", "i", "o", "n", "/", "x", "-", "p", "n", "g">>, size |-> "small"],
     [originalname |-> <<"a", ".", "g", "i", "f">>, mimetype |-> <<"i", "m", "a", "g", "e", "/", "g", "i", "f">>, size |-> "over"]}

\* upload.array('photos', 20)
MaxCount == 20
\* The file parts a request is drawn with.
MaxParts == 22

\* (mutant) multer counts no files
FilesLeft_NoLimit(seen) == TRUE

\* multer's count for the photos field: files are left while fewer than
\* maxCount have been met.
FilesLeft(seen) == seen < MaxCount

\* multer ends the request with an error: the files it stored for the request
\* are removed and the error goes to next(err).
AbortWithError(message) ==
    [upr EXCEPT !.pc = "aborted", !.stored = 0, !.kinds = {}, !.error = message]

\* A request arrives: multipart, or a body multer does not parse.
UploadRequest(multipart) ==
    /\ api["upload"].pc = "idle"
    /\ api' = [api EXCEPT !["upload"] = [@ EXCEPT !.pc = "multer"]]
    /\ upr' = [IdleUpr EXCEPT !.pc = IF multipart THEN "parsing" ELSE "skipped"]
    /\ UNCHANGED <<repoVars, pub, del, upl, gen, uploads, lst, cli>>

\* The next file part of the photos field: counted, filtered, stored.
UploadPart(file) ==
    /\ upr.pc = "parsing"
    /\ upr.seen < MaxParts
    /\ upr' = IF ~FilesLeft(upr.seen)
              THEN [AbortWithError("Unexpected field") EXCEPT !.seen = @ + 1]
              ELSE IF ~FileFilter(file)
              THEN [AbortWithError("Only image files are allowed") EXCEPT !.seen = @ + 1]
              ELSE IF file.size = "over"
              THEN [AbortWithError("File too large") EXCEPT !.seen = @ + 1]
              ELSE [upr EXCEPT !.seen = @ + 1, !.stored = @ + 1,
                               !.kinds = @ \cup {file}]
    /\ UNCHANGED <<repoVars, pub, del, upl, gen, uploads, lst, api, cli>>

\* The body ends: req.files is set and the handler runs.
UploadEnd ==
    /\ upr.pc = "parsing"
    /\ upr' = [upr EXCEPT !.pc = "parsed"]
    /\ UNCHANGED <<repoVars, pub, del, upl, gen, uploads, lst, api, cli>>

\* The handler: req.files.map(...) answered with success, or its catch when
\* req.files is undefined.
UploadHandler ==
    /\ api["upload"].pc = "multer"
    /\ \/ /\ upr.pc = "parsed"
          /\ api' = RouteRespond("upload", [status |-> 200, success |-> TRUE,
                                            files |-> upr.stored])
       \/ /\ upr.pc = "skipped"
          /\ api' = RouteRespond("upload", [status |-> 500, success |-> FALSE,
                                            error |-> "Cannot read properties of undefined"])
    /\ UNCHANGED <<repoVars, pub, del, upl, gen, uploads, lst, upr, cli>>

\* The error-handling middleware, for the error multer passed to next.
ErrorMiddleware ==
    /\ api["upload"].pc = "multer"
    /\ upr.pc = "aborted"
    /\ api' = RouteRespond("upload", [status |-> 500, success |-> FALSE,
                                      error |-> upr.error])
    /\ UNCHANGED <<repoVars, pub, del, upl, gen, uploads, lst, upr, cli>>

UploadNext ==
    /\ RouteNext("upload")
    /\ upr' = IdleUpr
    /\ UNCHANGED <<repoVars, pub, del, upl, gen, uploads, lst, cli>>

StartUploadRequest ==
    /\ api["upload"].pc = "idle"
    /\ \E multipart \in BOOLEAN : UploadRequest(multipart)

NextUpload ==
    \/ StartUploadRequest
    \/ \E file \in Files : UploadPart(file)
    \/ UploadEnd
    \/ UploadHandler
    \/ ErrorMiddleware
    \/ UploadNext

SpecUpload == Init /\ [][NextUpload]_vars

\* ------------------------------------------------- the form client
\* uploadedPhotos.length >= 20
MaxPhotos == 20
\* The files of one selection or drop, and the uploads in flight at a time.
MaxSelect == 21
MaxInFlight == 2

\* The loop of handlePhotoFiles over the files: the list's length does not
\* change in the loop, so either every file is appended or none is.
Appended(uploadedPhotos, files) == IF uploadedPhotos >= MaxPhotos THEN 0 ELSE files

\* A selection or a drop of files: handlePhotoFiles up to its fetch.
HandlePhotoFiles(files) ==
    /\ Len(cli.inflight) < MaxInFlight
    /\ cli' = [cli EXCEPT !.inflight = Append(@, Appended(cli.uploadedPhotos, files))]
    /\ UNCHANGED <<repoVars, pub, del, upl, gen, uploads, lst, api, upr>>

\* The answer to the upload request in flight at place k: success with one
\* stored file per file sent, while multer's count allows it, and then every
\* file is pushed onto the list; or an error payload, and the list stays.
UploadAnswered(k) ==
    /\ k \in DOMAIN cli.inflight
    /\ LET rest == [j \in 1..(Len(cli.inflight) - 1) |->
                       IF j < k THEN cli.inflight[j] ELSE cli.inflight[j + 1]]
       IN  \/ /\ cli.inflight[k] <= MaxCount
              /\ cli' = [cli EXCEPT !.inflight = rest,
                                    !.uploadedPhotos = @ + cli.inflight[k]]
           \/ cli' = [cli EXCEPT !.inflight = rest]
    /\ UNCHANGED <<repoVars, pub, del, upl, gen, uploads, lst, api, upr>>

\* removePhoto(index): splice one entry out.
RemovePhoto ==
    /\ cli.uploadedPhotos > 0
    /\ cli' = [cli EXCEPT !.uploadedPhotos = @ - 1]
    /\ UNCHANGED <<repoVars, pub, del, upl, gen, uploads, lst, api, upr>>

NextClient ==
    \/ \E files \in 1..MaxSelect : HandlePhotoFiles(files)
    \/ \E k \in 1..MaxInFlight : UploadAnswered(k)
    \/ RemovePhoto

SpecClient == Init /\ [][NextClient]_vars

\* ------------------------------------- the form client's generate and preview
\* generateSite up to its fetch: the Generate button is disabled and the
\* request is sent.
GenerateSite ==
    /\ cli.generating < MaxInFlight
    /\ cli' = [cli EXCEPT !.generating = @ + 1, !.disabled = TRUE,
                          !.previewModal = FALSE]
    /\ UNCHANGED <<repoVars, pub, del, upl, gen, uploads, lst, api, upr>>

\* A click on the Generate button: a disabled button gives no click, and the
\* preview dialog, while shown, lies over the page.
ClickGenerate ==
    /\ ~cli.disabled
    /\ ~cli.previewModal
    /\ GenerateSite

\* The rest of generateSite, after the answer or the error of one request: the
\* result is shown and the Generate button is enabled.
GenerateSiteAnswered ==
    /\ cli.generating > 0
    /\ cli' = [cli EXCEPT !.generating = @ - 1, !.disabled = FALSE]
    /\ UNCHANGED <<repoVars, pub, del, upl, gen, uploads, lst, api, upr>>

\* A click on the Preview button: previewSite up to its fetch.
PreviewSite ==
    /\ ~cli.previewModal
    /\ cli.previewing < MaxInFlight
    /\ cli' = [cli EXCEPT !.previewing = @ + 1]
    /\ UNCHANGED <<repoVars, pub, del, upl, gen, uploads, lst, api, upr>>

\* The rest of previewSite: on success the preview dialog is shown.
PreviewSiteAnswered(success) ==
    /\ cli.previewing > 0
    /\ cli' = [cli EXCEPT !.previewing = @ - 1,
                          !.previewModal = IF success THEN TRUE ELSE @]
    /\ UNCHANGED <<repoVars, pub, del, upl, gen, uploads, lst, api, upr>>

\* closePreview, from either close button of the dialog.
ClosePreview ==
    /\ cli.previewModal
    /\ cli' = [cli EXCEPT !.previewModal = FALSE]
    /\ UNCHANGED <<repoVars, pub, del, upl, gen, uploads, lst, api, upr>>

\* The dialog's Publish button: closePreview(), then generateSite().
GenerateFromPreview ==
    /\ cli.previewModal
    /\ GenerateSite

NextForm ==
    \/ NextClient
    \/ ClickGenerate
    \/ GenerateSiteAnswered
    \/ PreviewSite
    \/ \E success \in BOOLEAN : PreviewSiteAnswered(success)
    \/ ClosePreview
    \/ GenerateFromPreview

SpecForm == Init /\ [][NextForm]_vars

\* --------------------------------------------------- POST /api/preview
\* The handler is synchronous: the placeholder data is rendered and answered,
\* or the renderer throws on the body and the catch answers 500.
PreviewRequest(renders) ==
    /\ api["preview"].pc = "idle"
    /\ api' = IF renders
              THEN RouteRespond("preview",
                                [status |-> 200, success |-> TRUE,
                                 html |-> GeneratePropertyHTML(<<"placeholder">>)])
              ELSE RouteRespond("preview", [status |-> 500, success |-> FALSE,
                                            error |-> "render"])
    /\ UNCHANGED <<repoVars, pub, del, upl, gen, uploads, lst, upr, cli>>

StartPreview ==
    /\ api["preview"].pc = "idle"
    /\ \E renders \in BOOLEAN : PreviewRequest(renders)

PreviewNext ==
    /\ RouteNext("preview")
    /\ UNCHANGED <<repoVars, pub, del, upl, gen, uploads, lst, upr, cli>>

ListNext ==
    /\ RouteNext("list")
    /\ lst' = IdleLst
    /\ UNCHANGED <<repoVars, pub, del, upl, gen, uploads, upr, cli>>

\* ------------------------------------------- the server, route by route
\* The requests that have arrived at a handler.
Started(handler) == Len(handler.answered) + (IF handler.pc = "idle" THEN 0 ELSE 1)

Served ==
    Started(gen) + Started(api["list"]) + Started(api["delete"])
    + Started(api["upload"]) + Started(api["preview"])

\* A request is being handled.
Busy ==
    \/ gen.pc \notin {"idle", "responded"}
    \/ \E r \in Routes : api[r].pc \notin {"idle", "responded"}

\* No request is being handled, and the requests drawn are not used up.
ServerFree == ~Busy /\ Served < Cardinality(Submissions)

\* The generate requests to the server: a complete form or one without address,
\* with no photo or one staged photo, with or without GITHUB_TOKEN.
StartServerGenerate ==
    /\ gen.pc = "idle"
    /\ \E data \in {body \in ResubmitBodies :
                       body["property.address"] \in {"1 Main St", EmptyString}},
          photos \in {<<>>, <<[url |-> EmptyString, path |-> "/uploads/1.jpg"]>>},
          configured \in BOOLEAN :
          GenerateRequest(data, Labelled(photos), configured)

\* The files the upload requests to the server carry: an image, an svg, a text
\* file and an image over the size limit.
ServerFiles ==
    {file \in Files :
        \/ file.size = "over"
        \/ file.mimetype \in {<<"i", "m", "a", "g", "e", "/", "p", "n", "g">>,
                               <<"t", "e", "x", "t", "/", "p", "l", "a", "i", "n">>}}

NextServer ==
    \/ ServerFree /\ StartServerGenerate
    \/ ServerFree /\ StartList
    \/ ServerFree /\ StartDeleteRequest
    \/ ServerFree /\ StartUploadRequest
    \/ ServerFree /\ StartPreview
    \/ GenerateValidate
    \/ GeneratePhoto
    \/ GenerateRender
    \/ UploadMultipleFiles("g")
    \/ GeneratePublished
    \/ GenerateFailed
    \/ GenerateCleanup
    \/ GenerateRespond
    \/ ListGetContent
    \/ ListAnswer
    \/ DeleteGetContent
    \/ DeleteFile
    \/ DeleteAnswer
    \/ \E file \in ServerFiles : UploadPart(file)
    \/ UploadEnd
    \/ UploadHandler
    \/ ErrorMiddleware
    \/ GenerateNext
    \/ ListNext
    \/ DeleteNext
    \/ UploadNext
    \/ PreviewNext

SpecServer == Init /\ [][NextServer]_vars

\* Every hosting call returns and every handler runs on: a step that can be
\* taken is taken.
FairServer == SpecServer /\ WF_vars(NextServer)

\* =====================================================================
\* Properties of the commit publisher (specification Spec)
\* =====================================================================
Steps == <<"getRef", "getCommit", "createBlob", "createTree", "createCommit", "updateRef">>

\* The content the call p supplies for path q (its last entry for q).
Supplied(p, q) ==
    LET I == {i \in DOMAIN pub[p].files : pub[p].files[i].path = q}
    IN  pub[p].files[CHOOSE i \in I : \A j \in I : j <= i].content

\* The files of call p that the tree holds with the content p supplied.
VisibleFiles(p, tree) ==
    {q \in FilePaths(pub[p].files) : tree[q] = Supplied(p, q)}

\* The commit of call p is the branch tip or in its history.
OnBranch(p) == pub[p].newCommitSha # 0 /\ IsAncestor(pub[p].newCommitSha, ref)

\* The files the tree holds under properties/<slug>/.
SiteFiles(slug, tree) == {q \in SitePaths(slug) : tree[q] # Absent}

\* C1 (as stated): in every reachable state, for every publish call whose
\* commit is on the branch, the tip tree holds either all of that call's files
\* (index.html and every image) or none of them; never only some.
C1_AllOrNothing ==
    \A p \in Procs :
        OnBranch(p) =>
            \/ VisibleFiles(p, TipTree) = FilePaths(pub[p].files)
            \/ VisibleFiles(p, TipTree) = {}

\* C2: the hosting calls are issued in the order getRef, getCommit, createBlob,
\* createTree, createCommit, updateRef; a step is issued only after the one
\* before it has returned successfully, and createTree only when no createBlob
\* call is still in flight and every file has its blob.
C2_FixedOrder ==
    \A p \in Procs :
        /\ \A k \in 2..Len(Steps) :
              Steps[k] \in pub[p].issued => Steps[k - 1] \in pub[p].returned
        /\ "createTree" \in pub[p].issued =>
              /\ pub[p].pending = {}
              /\ Len(pub[p].blobs) = Len(pub[p].files)
              /\ \A i \in DOMAIN pub[p].files : pub[p].files[i].content \in blobs
        /\ pub[p].returned \subseteq pub[p].issued

C2_Witness ==
    \E p \in Procs :
        /\ pub[p].pc = "done"
        /\ Len(pub[p].files) >= 2
        /\ pub[p].returned = {Steps[k] : k \in DOMAIN Steps}

\* Two publishes that resolved the branch to the same commit, of which p has
\* moved the branch and q has had its pointer update answered by the service.
Raced(p, q) ==
    /\ p # q
    /\ pub[p].pc = "done"
    /\ pub[q].currentCommitSha = pub[p].currentCommitSha
    /\ "updateRef" \in pub[q].issued
    /\ pub[q].error # "unavailable"

C4_SecondSupersedes ==
    \A p \in Procs :
        ( /\ pub[p].pc = "done"
          /\ ref = pub[p].newCommitSha
          /\ pub[p].baseTreeSha[IndexPath(pub[p].slug)] # Absent )
        => SiteFiles(pub[p].slug, TipTree) = FilePaths(pub[p].files)

\* C5: when a hosting call of a publish fails, the error is rethrown, no later
\* step of that publish is ever issued, the failing call leaves the branch
\* pointer and the stored objects as they were, and no step of any publish
\* removes a blob, a tree or a commit.
C5_FailureAborts ==
    [][ /\ \A p \in Procs :
              /\ pub'[p].error # "" =>
                    /\ pub'[p].pc = "failed"
                    /\ pub'[p].thrown
                    /\ \E k \in DOMAIN Steps :
                          /\ pub'[p].issued = {Steps[j] : j \in 1..k}
                          /\ pub'[p].returned = {Steps[j] : j \in 1..(k - 1)}
              /\ (pub[p].error = "" /\ pub'[p].error # "") =>
                    /\ ref' = ref
                    /\ commits' = commits
                    /\ trees' = trees
                    /\ blobs' = blobs
              /\ pub[p].error # "" =>
                    /\ pub'[p].issued = pub[p].issued
                    /\ pub'[p].pc = "failed"
        /\ blobs \subseteq blobs'
        /\ trees \subseteq trees'
        /\ Len(commits) <= Len(commits')
        /\ SubSeq(commits', 1, Len(commits)) = commits
      ]_vars

C5_Witness ==
    \E p \in Procs :
        /\ pub[p].pc = "failed"
        /\ pub[p].error = "unavailable"
        /\ "createBlob" \in pub[p].returned
        /\ "createTree" \in pub[p].issued
        /\ pub[p].files[1].content \in blobs
        /\ ref = pub[p].currentCommitSha

\* C6: a successful uploadMultipleFiles call has created exactly one commit;
\* its single parent is the commit read from the branch in step 1, its tree is
\* the tree created in step 4, and the call sets the branch pointer to that
\* commit.
C6_OneCommit ==
    [][ \A p \in Procs :
           (pub[p].pc # "done" /\ pub'[p].pc = "done") =>
              /\ Cardinality({c \in DOMAIN commits' : commits'[c].by = p}) = 1
              /\ commits'[pub'[p].newCommitSha].by = p
              /\ commits'[pub'[p].newCommitSha].parents = <<pub'[p].currentCommitSha>>
              /\ commits'[pub'[p].newCommitSha].tree = pub'[p].treeSha
              /\ pub'[p].treeSha \in trees'
              /\ ref' = pub'[p].newCommitSha
      ]_vars

C6_Witness ==
    \E p, q \in Procs :
        /\ p # q
        /\ pub[p].pc = "done"
        /\ pub[q].pc = "done"
        /\ ref = pub[p].newCommitSha
        /\ commits[ref].parents = <<pub[q].newCommitSha>>

\* C7: the tree a publish commits is the base tree read in step 2 with every
\* supplied path mapped to the supplied content; every other path is as in
\* the base tree.
C7_LayeredTree ==
    \A p \in Procs :
        pub[p].pc = "done" =>
            \A q \in Paths :
                commits[pub[p].newCommitSha].tree[q] =
                    IF q \in FilePaths(pub[p].files)
                    THEN Supplied(p, q)
                    ELSE pub[p].baseTreeSha[q]

C7_Witness ==
    \E p \in Procs :
        /\ pub[p].pc = "done"
        /\ pub[p].baseTreeSha[IndexPath(pub[p].slug)] \notin {Absent, pub[p].files[1].content}
        /\ \E q \in Paths \ FilePaths(pub[p].files) :
              /\ q # ReadmePath
              /\ pub[p].baseTreeSha[q] # Absent
              /\ TipTree[q] = pub[p].baseTreeSha[q]

\* =====================================================================
\* Properties of the site deleter (specification SpecDelete)
\* =====================================================================
\* Since the listing was read, only this delete call has moved the branch.
RECURSIVE DeleteChain(_)
DeleteChain(c) ==
    \/ c = del.base
    \/ /\ commits[c].by = "del"
       /\ DeleteChain(commits[c].parents[1])

Undisturbed == del.base # 0 /\ DeleteChain(ref)

\* The listed entry is in the tree as it was listed.
StillPresent(file, tree) ==
    IF file.type = "dir" THEN HasImages(file.path.slug, tree)
    ELSE tree[file.path] = file.sha

C9_PartialDelete ==
    [][ /\ del'.error # "" => (del'.pc = "failed" /\ del'.thrown)
        /\ del.pc = "failed" => del' = del
        /\ del'.calls # del.calls =>
              /\ del'.calls = del.calls + 1
              /\ \/ /\ del'.error = ""
                    /\ Len(commits') = Len(commits) + 1
                    /\ ref' = Len(commits')
                    /\ commits'[ref'].tree =
                          [TipTree EXCEPT ![del.files[del.k].path] = Absent]
                    /\ del'.removed = del.removed \cup {del.files[del.k].path}
                 \/ /\ del'.error # ""
                    /\ repoVars' = repoVars
                    /\ del'.removed = del.removed
        /\ (del'.pc = "failed" /\ del'.calls >= 1) =>
              /\ del'.removed = {del'.files[i].path : i \in 1..(del'.calls - 1)}
              /\ Undisturbed' =>
                    \A i \in DOMAIN del'.files :
                        IF i < del'.calls
                        THEN commits'[ref'].tree[del'.files[i].path] = Absent
                        ELSE StillPresent(del'.files[i], commits'[ref'].tree)
      ]_vars

C9_Witness ==
    /\ del.pc = "failed"
    /\ del.thrown
    /\ del.calls = 2
    /\ Len(del.files) = 3
    /\ Undisturbed
    /\ TipTree[del.files[1].path] = Absent
    /\ TipTree[del.files[3].path] # Absent

\* =====================================================================
\* Properties of POST /api/generate (specification SpecGenerate)
\* =====================================================================
\* A required field the body does not supply: absent, or the empty string.
MissingField(data, field) == data[field] \in {Undefined, EmptyString}

NotSupplied(data) == SelectSeq(requiredFields, LAMBDA f : MissingField(data, f))

\* C10 (as stated): a request with at least one required field missing is
\* answered with success:false and a missingFields list naming exactly the
\* missing fields, before any hosting call is made and before any staged upload
\* is read or deleted.
C10_RejectsMissing ==
    (gen.pc = "responded" /\ NotSupplied(gen.data) # <<>>) =>
        /\ gen.response.status = 400
        /\ gen.response.success = FALSE
        /\ gen.response.missingFields = NotSupplied(gen.data)
        /\ pub["g"].issued = {}
        /\ gen.reads = {}
        /\ gen.unlinks = {}
        /\ uploads = InitialUploads

\* The staged upload files the submission refers to: the gallery photos' paths
\* and the two contact profiles' photos.
StagedRefs(data, photosIn) ==
    {photosIn[i].path : i \in {j \in DOMAIN photosIn : photosIn[j].path # EmptyString}}
    \cup {data[f] : f \in {g \in ContactPhotoFields : data[g] # Undefined}}

\* C11 (as stated): once a request whose publish completed has been answered,
\* a delete has been attempted on every staged upload file the submission
\* refers to, gallery photos and contact-profile photos alike, and the answer
\* is success with published:true whether or not a delete failed.
C11_CleanupAttempted ==
    (gen.pc = "responded" /\ pub["g"].pc = "done") =>
        /\ StagedRefs(gen.data, gen.photosIn) \subseteq gen.unlinks
        /\ gen.response.status = 200
        /\ gen.response.success = TRUE
        /\ gen.response.published = TRUE

\* C12 (as stated): with hosting not configured, a request whose form supplies
\* every required field is answered success with published:false and a
\* non-empty html document; no hosting call is issued and the repository is
\* what it was.
C12_UnconfiguredAnswersHtml ==
    (gen.pc = "responded" /\ ~gen.configured /\ NotSupplied(gen.data) = <<>>) =>
        /\ gen.response.status = 200
        /\ gen.response.success = TRUE
        /\ gen.response.published = FALSE
        /\ gen.response.html # EmptyContent
        /\ pub["g"].issued = {}
        /\ ref = 1 /\ commits = <<InitialCommit>>
        /\ trees = {InitialTree} /\ blobs = {1}

\* =====================================================================
\* Properties of submissions one after another (specification SpecResubmit)
\* =====================================================================
\* The request being handled carries the address and city of the answered
\* request a.
SameAddress(a) ==
    /\ gen.data["property.address"] = a.data["property.address"]
    /\ gen.data["property.city"] = a.data["property.city"]

\* The answer says the site was published.
Published(response) == response.status = 200 /\ response.published = TRUE

\* C13: a submission with the address and city of an earlier one gets the
\* earlier one's slug and publishes to the same properties/<slug>/index.html;
\* when the earlier one was published, the later one is answered published
\* too, the index.html at that path then holds the later document and the
\* listing names the slug once; the only failure it can meet is an outage of
\* the hosting service, never a rejection because the site exists.
C13_SameSlugOverwrites ==
    \A k \in DOMAIN gen.answered :
        LET a == gen.answered[k]
        IN  (gen.propertySlug # "" /\ SameAddress(a)) =>
                /\ gen.propertySlug = a.propertySlug
                /\ pub["g"].pc # "idle" =>
                       pub["g"].files[1].path = IndexPath(a.propertySlug)
                /\ (gen.pc = "responded" /\ Published(a.response)) =>
                       \/ /\ Published(gen.response)
                          /\ TipTree[IndexPath(a.propertySlug)] = gen.htmlContent
                          /\ ListedSlugs(TipTree) = {a.propertySlug}
                       \/ /\ gen.response.status = 500
                          /\ gen.response.error = "unavailable"

\* Two published submissions of one address, the later one with another
\* document.
C13_Witness ==
    /\ gen.pc = "responded"
    /\ Len(gen.answered) = 1
    /\ SameAddress(gen.answered[1])
    /\ Published(gen.answered[1].response)
    /\ Published(gen.response)
    /\ gen.answered[1].htmlContent # gen.htmlContent
    /\ TipTree[IndexPath(gen.propertySlug)] = gen.htmlContent

\* =====================================================================
\* Properties of the site listing (specification SpecList)
\* =====================================================================
\* The tree the listing was read from.
ListedTree == commits[lst.base].tree

\* C14: listPropertySites returns the empty list, and throws nothing, when
\* the repository has no properties path; otherwise it returns one entry for
\* each directory directly under properties/, in the listing's order, and none
\* for a file there; an error other than 404 is thrown to the caller, and the
\* route answers it with success:false.
C14_ListsDirectories ==
    /\ lst.error = "not_found" =>
          /\ lst.pc = "done" /\ ~lst.thrown /\ lst.result = <<>>
          /\ \A q \in Paths \ {ReadmePath} : ListedTree[q] = Absent
    /\ (lst.pc = "done" /\ lst.error = "") =>
          /\ {lst.result[k].slug : k \in DOMAIN lst.result} = ListedSlugs(ListedTree)
          /\ Len(lst.result) = Cardinality(ListedSlugs(ListedTree))
          /\ \E q \in Paths \ {ReadmePath} : ListedTree[q] # Absent
    /\ lst.error \notin {"", "not_found"} => lst.pc = "failed" /\ lst.thrown
    /\ (api["list"].pc = "responded" /\ lst.pc = "failed") =>
          /\ api["list"].response.success = FALSE
          /\ api["list"].response.error = lst.error
    /\ (api["list"].pc = "responded" /\ lst.pc = "done") =>
          /\ api["list"].response.success = TRUE
          /\ api["list"].response.properties = lst.result

\* A listing read from a tree with a site and with .gitkeep beside it.
C14_Witness ==
    /\ api["list"].pc = "responded"
    /\ lst.pc = "done"
    /\ ListedTree[KeepPath] # Absent
    /\ Len(lst.result) = 1

\* =====================================================================
\* Properties of DELETE /api/properties/:slug (specification SpecDeleteRoute)
\* =====================================================================
\* No commit made so far holds a file under properties/<slug>/.
NeverPublished(slug) ==
    \A k \in DOMAIN commits : SiteFiles(slug, commits[k].tree) = {}

\* C15: a delete request for a slug that was never published is answered
\* with success:false and the hosting error, no remove call is issued for it
\* and nothing is removed; the route goes on to its next request, which gets
\* the one answer its own call earns whatever the earlier answer was.
C15_DeleteUnknownSlug ==
    LET d == api["delete"]
    IN  /\ (d.pc = "responded" /\ d.configured /\ NeverPublished(del.slug)) =>
              /\ d.response.status = 500
              /\ d.response.success = FALSE
              /\ d.response.error = del.error
              /\ del.error \in {"not_found", "unavailable"}
              /\ del.calls = 0
              /\ del.removed = {}
        /\ (d.pc = "responded" /\ d.configured /\ d.answered # <<>>) =>
              /\ d.sent = 1
              /\ del.pc = "done" => d.response.status = 200 /\ d.response.success = TRUE
              /\ del.pc = "failed" => d.response.status = 500 /\ d.response.error = del.error

\* A delete of a published site answered with success after a delete of an
\* unknown slug was answered with the not-found error.
C15_Witness ==
    LET d == api["delete"]
    IN  /\ d.pc = "responded"
        /\ d.answered # <<>>
        /\ d.answered[1].status = 500
        /\ d.answered[1].error = "not_found"
        /\ d.response.status = 200
        /\ del.removed # {}

\* =====================================================================
\* More properties of POST /api/generate (specification SpecGenerate)
\* =====================================================================
\* C16: the photos handed to the renderer are photos of the request in the
\* request's order: each is the request's photo of its label, an external url
\* as given or a staged upload under ./images, and of two rendered photos the
\* one earlier in the rendered list is the one earlier in the request.
C16_OrderKept ==
    /\ \A k \in DOMAIN gen.rendered :
          LET photo == gen.rendered[k]
          IN  /\ photo.label \in DOMAIN gen.photosIn
              /\ IF gen.photosIn[photo.label].url # EmptyString
                 THEN photo.url = gen.photosIn[photo.label].url
                 ELSE photo.url = "./images" /\ gen.photosIn[photo.label].path # EmptyString
    /\ \A j, k \in DOMAIN gen.rendered :
          j < k => gen.rendered[j].label < gen.rendered[k].label

\* A staged upload rendered before an external url, as the request had them.
C16_Witness ==
    /\ gen.pc = "responded"
    /\ Len(gen.rendered) = 2
    /\ gen.rendered[1].url = "./images"
    /\ gen.rendered[2].url # "./images"

\* =====================================================================
\* Properties of POST /api/upload (specification SpecUpload)
\* =====================================================================
\* C17: a request never has more than 20 files stored or accepted; once a
\* 21st file part has been met the request is ended with an error, nothing
\* of it is stored, and its answer is the error payload.
C17_AtMostTwenty ==
    /\ upr.stored <= MaxCount
    /\ upr.seen > MaxCount =>
          /\ upr.pc = "aborted"
          /\ upr.stored = 0 /\ upr.kinds = {}
          /\ api["upload"].pc = "responded" =>
                /\ api["upload"].response.status = 500
                /\ api["upload"].response.success = FALSE
    /\ (api["upload"].pc = "responded" /\ api["upload"].response.success) =>
          api["upload"].response.files <= MaxCount

\* A request of 21 allowed files, answered with the error.
C17_Witness ==
    /\ upr.seen = MaxCount + 1
    /\ upr.error = "Unexpected field"
    /\ api["upload"].pc = "responded"
    /\ api["upload"].response.success = FALSE

\* The allow-list as the claim reads it: the extension is .jpeg, .jpg, .png,
\* .gif or .webp in either case, the declared type image/ followed by one of
\* these names.
AllowListed(file) ==
    /\ ToLowerCase(ExtName(file.originalname)) \in {<<".">> \o alt : alt \in Alternatives}
    /\ file.mimetype \in {<<"i", "m", "a", "g", "e", "/">> \o alt : alt \in Alternatives}

\* C18 (as stated): every file the upload store holds for a request has an
\* allow-listed extension and an allow-listed declared type; a request ended
\* by an error leaves no file in the store and is answered with the error
\* payload.
C18_OnlyAllowListed ==
    /\ \A file \in upr.kinds : AllowListed(file)
    /\ upr.pc = "aborted" =>
          /\ upr.stored = 0 /\ upr.kinds = {}
          /\ api["upload"].pc = "responded" => api["upload"].response.success = FALSE

\* =====================================================================
\* Properties of the form client (specification SpecClient)
\* =====================================================================
\* C19 (as stated): whatever files were selected or dropped, whatever uploads
\* completed and whatever photos were removed, the client's photo list holds at
\* most 20 photos.
C19_AtMostTwentyPhotos == cli.uploadedPhotos <= MaxPhotos

\* =====================================================================
\* Properties of the server's routes (specification FairServer)
\* =====================================================================
\* A success payload, or an error payload with success:false and a message.
Payload(response) ==
    /\ response.status \in {200, 400, 500}
    /\ \/ response.success = TRUE /\ response.status = 200
       \/ response.success = FALSE /\ response.status # 200 /\ response.error # ""

\* The handler's request has its one answer, and so had the requests before.
AnsweredOnce(handler, earlier) ==
    /\ handler.sent <= 1
    /\ handler.pc = "responded" => handler.sent = 1 /\ Payload(handler.response)
    /\ handler.pc # "responded" => handler.sent = 0
    /\ \A k \in DOMAIN earlier : Payload(earlier[k])

\* C20: a request to generate, list, delete, upload or preview that is being
\* handled comes to be answered, and a handler that is not in the middle of a
\* request has written exactly one answer to its latest request: a success
\* payload, or an error payload carrying success:false and a message; so were
\* the requests before it, whatever their errors, and the handler that answered
\* takes later requests.
C20_AnsweredOnce ==
    /\ [](/\ AnsweredOnce(gen, [k \in DOMAIN gen.answered |-> gen.answered[k].response])
          /\ \A r \in Routes : AnsweredOnce(api[r], api[r].answered))
    /\ Busy ~> ~Busy

\* A request answered after a request that was answered with an error: a
\* publish that failed at a hosting call, then an upload ended by multer.
C20_Witness ==
    /\ gen.pc = "responded"
    /\ gen.response.status = 500
    /\ api["upload"].pc = "responded"
    /\ api["upload"].response.success = FALSE
    /\ upr.pc = "aborted"

\* =====================================================================
\* Properties of the validation and the publish of POST /api/generate
\* (specification SpecGenerate)
\* =====================================================================
\* C21 (as stated): a request that supplies every required field with a value
\* the data model allows, a price or a bathrooms count of 0 included, gets past
\* the validation: no field is put on missingFields and the answer is not the
\* 400 of the validation.
C21_AcceptsZero ==
    (gen.pc \notin {"idle", "validate"} /\ NotSupplied(gen.data) = <<>>) =>
        /\ gen.missingFields = <<>>
        /\ gen.pc = "responded" => gen.response.status # 400

\* C22: the answer says published:true only when the updateRef call of the
\* request's own publish has returned and the branch points at its commit; a
\* request whose publish threw at any hosting step is answered 500 with
\* success:false and never published:true.
C22_PublishedAfterUpdateRef ==
    gen.pc = "responded" =>
        /\ Published(gen.response) =>
              /\ pub["g"].pc = "done"
              /\ Steps[Len(Steps)] \in pub["g"].returned
              /\ \A k \in DOMAIN Steps : Steps[k] \in pub["g"].returned
              /\ ref = pub["g"].newCommitSha
        /\ (pub["g"].thrown \/ pub["g"].error # "") =>
              /\ gen.response.status = 500
              /\ gen.response.success = FALSE
              /\ gen.response.error = pub["g"].error

\* A request answered with the error of an updateRef call that failed after
\* the commit had been created.
C22_Witness ==
    /\ gen.pc = "responded"
    /\ gen.response.status = 500
    /\ "updateRef" \in pub["g"].issued \ pub["g"].returned
    /\ "createCommit" \in pub["g"].returned
    /\ ref # pub["g"].newCommitSha

\* C23: no staged file is unlinked, and the upload store is what it was,
\* unless the request's publish returned; a request whose publish failed is
\* answered with every file it refers to still in place.
C23_KeptOnFailure ==
    /\ pub["g"].pc # "done" => gen.unlinks = {} /\ uploads = InitialUploads
    /\ (gen.pc = "responded" /\ pub["g"].pc = "failed") =>
          /\ gen.response.success = FALSE
          /\ \A f \in StagedRefs(gen.data, gen.photosIn) : uploads[f] = InitialUploads[f]

\* A failed publish of a request with a staged photo that was read and is
\* still in the store.
C23_Witness ==
    /\ gen.pc = "responded"
    /\ pub["g"].pc = "failed"
    /\ \E k \in DOMAIN gen.photosIn :
          /\ gen.photosIn[k].path \in gen.reads
          /\ uploads[gen.photosIn[k].path] \notin {Gone, EmptyContent}

\* The photos of the request given as a staged upload path.
StagedPhotos(photosIn) ==
    {k \in DOMAIN photosIn : photosIn[k].url = EmptyString /\ photosIn[k].path # EmptyString}

\* The image files the tree holds under properties/<slug>/images/.
ImagesIn(slug, tree) == {n \in 1..MaxImages : tree[ImagePath(slug, n)] # Absent}

\* C24 (as stated): when the answer says published:true, the commit of the
\* request's publish holds properties/<slug>/index.html with the rendered
\* document and one image file for every photo of the request given as a staged
\* upload path.
C24_EveryStagedPhoto ==
    (gen.pc = "responded" /\ Published(gen.response)) =>
        LET tree == commits[pub["g"].newCommitSha].tree
        IN  /\ tree[IndexPath(gen.propertySlug)] = gen.htmlContent
            /\ Cardinality(ImagesIn(gen.propertySlug, tree))
                  = Cardinality(StagedPhotos(gen.photosIn))


\* C25: within one publish the file paths given to uploadMultipleFiles are
\* pairwise distinct, and so are the numbers of the filenames photo-N generated
\* for the staged photos, for every mix and order of external-URL photos,
\* readable staged photos and unreadable staged photos.
C25_DistinctPaths ==
    /\ \A i, j \in DOMAIN pub["g"].files :
          i # j => pub["g"].files[i].path # pub["g"].files[j].path
    /\ \A i, j \in DOMAIN gen.photos :
          (i # j /\ gen.photos[i].n # 0) => gen.photos[i].n # gen.photos[j].n

\* A publish of two staged photos is under way: three files are uploaded.
C25_Witness ==
    /\ pub["g"].pc # "idle"
    /\ Len(pub["g"].files) = 3
    /\ Cardinality(StagedPhotos(gen.photosIn)) = 2


\* C26 (as stated): the files POST /api/generate reads into the publish and
\* the files it unlinks during cleanup are files of the upload store, for every
\* photo path a request can carry.
C26_OnlyUploadStore ==
    gen.reads \cup gen.unlinks \subseteq StagedPaths


\* Properties of the form client's generate (specification SpecForm)
\* C27 (as stated): at most one generate request of the form client is in
\* flight at any time, and the Generate button is disabled exactly while one
\* is.
C27_OneGenerateInFlight ==
    /\ cli.generating <= 1
    /\ cli.disabled <=> cli.generating > 0


\* Properties of uploadFile beside other writers (specification SpecUploadFile)
\* The file was changed by another writer after uploadFile read its hash: it
\* is there with another content than the one read.
Stale == upl.sha # NoSha /\ TipTree[upl.path] \notin {Absent, upl.sha}

\* What an invocation of uploadFile does apart from a stale hash: a read never
\* aborts and leaves the file's hash or none, the one create-or-update call
\* follows and carries that hash, an accepted call puts the content on the
\* branch, and nothing is called once the invocation has ended.
UploadFileSteps ==
    /\ (upl.pc = "getContent" /\ upl' # upl) =>
          /\ upl'.pc = "createOrUpdate"
          /\ upl'.calls = 0
          /\ upl'.sha \in {NoSha, TipTree[upl.path]}
          /\ upl'.sha # TipTree[upl.path] => upl'.sha = NoSha
    /\ (upl.pc = "createOrUpdate" /\ upl' # upl) =>
          /\ upl'.calls = 1
          /\ upl'.sha = upl.sha
          /\ upl'.pc \in {"done", "failed"}
          /\ upl'.pc = "done" =>
                commits'[ref'].tree = [TipTree EXCEPT ![upl.path] = upl.content]
          /\ upl'.pc = "failed" => upl'.thrown /\ upl'.error # "" /\ ref' = ref
    /\ upl.pc \in {"done", "failed"} => upl' = upl

====
